---------------------------- MODULE Spec2Model ----------------------------
(***************************************************************************)
(* Model of netcdf_to_sp2.py: the batch driver main(), the per-file        *)
(* conversion convert_netcdf_to_sp2(), the header writer, the validator    *)
(* and the numeric / time formatting helpers.                              *)
(*                                                                         *)
(* Text is modelled as sequences of one-character strings, so that the     *)
(* formatting done by the code (f"{v:6d}", " ".join, split, replace) is    *)
(* computed and can be parsed back by the properties.                      *)
(***************************************************************************)
EXTENDS Integers, Sequences, FiniteSets, TLC

(***************************************************************************)
(* Bounds of the model.                                                    *)
(***************************************************************************)
\* number of input files whose names may match in the input directory
NFiles == 2
\* number of successive runs of main() over the same directories
MaxRuns == 2
\* largest length of a coordinate array (time, location, frequency, direction)
MaxDim == 2

(***************************************************************************)
(* Generic sequence helpers.                                               *)
(***************************************************************************)
Min(a, b) == IF a <= b THEN a ELSE b

Abs(n) == IF n < 0 THEN -n ELSE n

RECURSIVE Concat(_)
Concat(ss) == IF ss = <<>> THEN <<>> ELSE Head(ss) \o Concat(Tail(ss))

RECURSIVE Spaces(_)
Spaces(n) == IF n <= 0 THEN <<>> ELSE <<" ">> \o Spaces(n - 1)

RECURSIVE Zeros(_)
Zeros(n) == IF n <= 0 THEN <<>> ELSE <<"0">> \o Zeros(n - 1)

Digits == <<"0", "1", "2", "3", "4", "5", "6", "7", "8", "9">>

RECURSIVE NatToStr(_)
NatToStr(n) ==
    IF n < 10 THEN <<Digits[n + 1]>>
    ELSE NatToStr(n \div 10) \o <<Digits[(n % 10) + 1]>>

\* Python str.join: the pieces separated by sep
RECURSIVE Join(_, _)
Join(pieces, sep) ==
    IF pieces = <<>> THEN <<>>
    ELSE IF Len(pieces) = 1 THEN pieces[1]
    ELSE pieces[1] \o sep \o Join(Tail(pieces), sep)

\* Python str.replace(c, ''): every occurrence of the character removed
StrReplaceEmpty(s, c) == SelectSeq(s, LAMBDA x : x # c)

\* Python str.split(c): the pieces between the occurrences of c
RECURSIVE StrSplitFrom(_, _, _, _)
StrSplitFrom(s, c, i, cur) ==
    IF i > Len(s) THEN <<cur>>
    ELSE IF s[i] = c THEN <<cur>> \o StrSplitFrom(s, c, i + 1, <<>>)
    ELSE StrSplitFrom(s, c, i + 1, Append(cur, s[i]))

StrSplit(s, c) == StrSplitFrom(s, c, 1, <<>>)

(***************************************************************************)
(* Numeric formatting.                                                     *)
(***************************************************************************)
\* printf-style zero padded field, as numpy prints the fields of a datetime
ZeroPad(n, width) == Zeros(width - Len(NatToStr(n))) \o NatToStr(n)

\* Python format spec "{val:Wd}": sign, digits, right-justified in W columns
FormatD(val, width) ==
    LET body == (IF val < 0 THEN <<"-">> ELSE <<>>) \o NatToStr(Abs(val))
    IN  Spaces(width - Len(body)) \o body

(***************************************************************************)
(* Energy samples.  A sample is NaN or a finite value counted in quarters  *)
(* (q = 10 is 2.5, q = -6 is -1.5).                                        *)
(***************************************************************************)
NaN == [nan |-> TRUE, q |-> 0]

Val(q) == [nan |-> FALSE, q |-> q]

\* np.nan_to_num(row, nan=0.0)
nan_to_num(s) == IF s.nan THEN Val(0) ELSE s

\* np.round (rint): nearest whole number, ties to the even one
np_round_half_up(s) == Val(4 * ((s.q + 2) \div 4))

np_round(s) ==
    LET lo == s.q \div 4
        r  == s.q % 4
        n  == IF r < 2 THEN lo
              ELSE IF r > 2 THEN lo + 1
              ELSE IF lo % 2 = 0 THEN lo ELSE lo + 1
    IN  Val(4 * n)

\* ndarray.astype(int): the fraction is cut off towards zero
astype_int(s) == IF s.q >= 0 THEN s.q \div 4 ELSE -((-s.q) \div 4)

\* lines 170-172: one matrix row as text
row_to_str(row) ==
    LET row_ints == [d \in 1..Len(row) |-> astype_int(np_round(nan_to_num(row[d])))]
    IN  Join([d \in 1..Len(row) |-> FormatD(row_ints[d], 6)], <<" ">>)

(***************************************************************************)
(* Time values.  A numpy datetime64 is modelled by its broken-down fields  *)
(* (numpy's datetimestruct); ms is the sub-second part in milliseconds.    *)
(***************************************************************************)
\* np.datetime_as_string(nptime, unit="s"): ISO text cut at the seconds
datetime_as_string_rounding(nptime) ==
    ZeroPad(nptime.Y, 4) \o <<"-">> \o ZeroPad(nptime.M, 2) \o <<"-">>
        \o ZeroPad(nptime.D, 2) \o <<"T">> \o ZeroPad(nptime.h, 2) \o <<":">>
        \o ZeroPad(nptime.m, 2) \o <<":">>
        \o ZeroPad(IF nptime.ms >= 500 /\ nptime.s < 59 THEN nptime.s + 1
                   ELSE nptime.s, 2)

datetime_as_string(nptime) ==
    ZeroPad(nptime.Y, 4) \o <<"-">> \o ZeroPad(nptime.M, 2) \o <<"-">>
        \o ZeroPad(nptime.D, 2) \o <<"T">> \o ZeroPad(nptime.h, 2) \o <<":">>
        \o ZeroPad(nptime.m, 2) \o <<":">> \o ZeroPad(nptime.s, 2)

format_swan_time(nptime) ==
    LET dt     == datetime_as_string(nptime)
        pieces == StrSplit(dt, "T")
        date   == pieces[1]
        time   == pieces[2]
    IN  StrReplaceEmpty(date, "-") \o <<".">> \o StrReplaceEmpty(time, ":")

(***************************************************************************)
(* Datasets.                                                               *)
(*   variables : names of the variables the file holds                     *)
(*   longitude, latitude, frequency, direction, time : coordinate arrays   *)
(*   eshape, energy : shape and samples of energy_density (4-D)            *)
(*   fshape, factor : shape and values of factor (2-D), when present       *)
(***************************************************************************)
required_vars ==
    <<"longitude", "latitude", "frequency", "direction", "energy_density", "time">>

RequiredSet == {required_vars[i] : i \in 1..Len(required_vars)}

\* log records: level, message, and the file / variable / number it names
LogRec(level, msg, file, var, n) ==
    [level |-> level, msg |-> msg, file |-> file, var |-> var, n |-> n]

\* lines 65-69: the first variable of required_vars the dataset lacks
RECURSIVE validate_from(_, _)
validate_from(ds, i) ==
    IF i > Len(required_vars) THEN [ok |-> TRUE, log |-> <<>>]
    ELSE IF required_vars[i] \notin ds.variables
         THEN [ok  |-> FALSE,
               log |-> <<LogRec("ERROR", "Missing required variable", 0,
                                required_vars[i], 0)>>]
         ELSE validate_from(ds, i + 1)

RECURSIVE validate_last_from(_, _)
validate_last_from(ds, i) ==
    IF i < 1 THEN [ok |-> TRUE, log |-> <<>>]
    ELSE IF required_vars[i] \notin ds.variables
         THEN [ok  |-> FALSE,
               log |-> <<LogRec("ERROR", "Missing required variable", 0,
                                required_vars[i], 0)>>]
         ELSE validate_last_from(ds, i - 1)

validate_netcdf_reversed(ds) == validate_last_from(ds, Len(required_vars))

validate_netcdf(ds) == validate_from(ds, 1)

(***************************************************************************)
(* Output lines.  A line carries a tag naming which f.write produced it,   *)
(* the text of its formatted integer / time field, and the numbers of its  *)
(* floating-point fields.  ExcItem marks the place where evaluating the    *)
(* argument of a write raises; it is never written.                        *)
(***************************************************************************)
Line(tag, txt, num) == [tag |-> tag, txt |-> txt, num |-> num]

ExcItem == Line("!IndexError", <<>>, <<>>)

\* lines 95-128
write_sp2_header(ds, nloc) ==
    <<Line("SWAN", <<>>, <<>>), Line("$version", <<>>, <<>>),
      Line("$project", <<>>, <<>>), Line("TIME", <<>>, <<>>),
      Line("timecoding", <<>>, <<>>), Line("LONLAT", <<>>, <<>>),
      Line("nloc", FormatD(nloc, 6), <<>>)>>
    \o [i \in 1..Min(Len(ds.longitude), Len(ds.latitude)) |->
           Line("lonlat", <<>>, <<ds.longitude[i], ds.latitude[i]>>)]
    \o <<Line("AFREQ", <<>>, <<>>),
         Line("nfreq", FormatD(Len(ds.frequency), 6), <<>>)>>
    \o [i \in 1..Len(ds.frequency) |-> Line("freq", <<>>, <<ds.frequency[i]>>)]
    \o <<Line("NDIR", <<>>, <<>>),
         Line("ndir", FormatD(Len(ds.direction), 6), <<>>)>>
    \o [i \in 1..Len(ds.direction) |-> Line("dir", <<>>, <<ds.direction[i]>>)]
    \o <<Line("QUANT", <<>>, <<>>), Line("nquant", <<>>, <<>>),
         Line("EnDens", <<>>, <<>>), Line("unit", <<>>, <<>>),
         Line("exception", <<>>, <<-99>>)>>

\* line 147: nloc = len(ds.longitude)
nloc_from_latitude(ds) == Len(ds.latitude)

nloc_of(ds) == Len(ds.longitude)

\* line 146: ds.factor.values, or np.ones((len(ds.time), len(ds.longitude)))
factors_of(ds) ==
    IF "factor" \in ds.variables
    THEN [shape |-> ds.fshape, at |-> ds.factor]
    ELSE [shape |-> <<Len(ds.time), Len(ds.longitude)>>,
          at    |-> [ix \in (1..Len(ds.time)) \X (1..Len(ds.longitude)) |-> 1]]

\* line 169: energy[t_idx, p_idx, fr_idx, :]; numpy raises IndexError when an
\* index is outside its axis, and the slice takes the whole last axis
energy_row(ds, t, p, fr) ==
    [d \in 1..ds.eshape[4] |-> ds.energy[<<t, p, fr, d>>]]

energy_index_ok(ds, t, p, fr) ==
    t <= ds.eshape[1] /\ p <= ds.eshape[2] /\ fr <= ds.eshape[3]

\* lines 168-173 for one frequency row
matrix_row_item(ds, t, p, fr) ==
    IF energy_index_ok(ds, t, p, fr)
    THEN Line("row", row_to_str(energy_row(ds, t, p, fr)), <<>>)
    ELSE ExcItem

\* lines 164-173 for one location: FACTOR is written before factors[t, p] is
\* evaluated for the next write
location_block(ds, factors, t, p) ==
    <<Line("FACTOR", <<>>, <<>>),
      IF t <= factors.shape[1] /\ p <= factors.shape[2]
      THEN Line("factor", <<>>, <<factors.at[<<t, p>>]>>)
      ELSE ExcItem>>
    \o [fr \in 1..Len(ds.frequency) |-> matrix_row_item(ds, t, p, fr)]

\* lines 158-173 for one timestep
time_block(ds, factors, nloc, t) ==
    <<Line("time", format_swan_time(ds.time[t]), <<>>)>>
    \o Concat([p \in 1..nloc |-> location_block(ds, factors, t, p)])

\* everything lines 155-173 try to write, in order
sp2_items(ds) ==
    LET factors == factors_of(ds)
        nloc    == nloc_of(ds)
    IN  write_sp2_header(ds, nloc)
        \o Concat([t \in 1..Len(ds.time) |-> time_block(ds, factors, nloc, t)])

\* index of the first item that raises, Len + 1 when none does
RECURSIVE first_exc(_, _)
first_exc(items, i) ==
    IF i > Len(items) THEN i
    ELSE IF items[i] = ExcItem THEN i
    ELSE first_exc(items, i + 1)

(***************************************************************************)
(* Files and I/O faults.                                                   *)
(***************************************************************************)
NoFile == [exists |-> FALSE, lines |-> <<>>]

\* an output left in the output directory before the first run
StaleFile == [exists |-> TRUE, lines |-> <<Line("stale", <<>>, <<>>)>>]

NoFault == [kind |-> "none", at |-> 0]

\* the calls of f.write at which an I/O error is injected: the first one, and
\* one in the middle of the header
WriteFaultAt == {1, 9}

\* what the environment can make fail in one conversion: xr.open_dataset
\* (line 140), os.makedirs (line 150), open(output_path, 'w') (line 153), or
\* the at-th call of f.write (lines 95-173)
Faults ==
    {[kind |-> k, at |-> 0] : k \in {"none", "open_input", "makedirs", "open_output"}}
    \cup {[kind |-> "write", at |-> k] : k \in WriteFaultAt}

\* line 178
ExcLog(file) == <<LogRec("ERROR", "Error processing", file, "", 0)>>

(***************************************************************************)
(* convert_netcdf_to_sp2 (lines 130-179) as a function of the dataset read *)
(* from input_path, the fault the environment injects and the output file  *)
(* as it was: the return value, the output file as it is left, what is     *)
(* logged, and whether open(output_path, 'w') was reached and succeeded.   *)
(***************************************************************************)
convert_open_before_validate(file, ds, fault, old) ==
    IF fault.kind = "open_input"
    THEN [ret |-> FALSE, out |-> old, log |-> ExcLog(file), opened |-> FALSE]
    ELSE LET v == validate_netcdf(ds) IN
         IF fault.kind \in {"makedirs", "open_output"}
         THEN [ret |-> FALSE, out |-> old, log |-> ExcLog(file), opened |-> FALSE]
         ELSE IF ~v.ok
         THEN [ret |-> FALSE, out |-> [exists |-> TRUE, lines |-> <<>>],
               log |-> v.log, opened |-> TRUE]
         ELSE LET items   == sp2_items(ds)
                  stop    == Min(first_exc(items, 1),
                                 IF fault.kind = "write" THEN fault.at
                                 ELSE Len(items) + 1)
                  written == SubSeq(items, 1, stop - 1)
              IN  [ret    |-> stop > Len(items),
                   out    |-> [exists |-> TRUE, lines |-> written],
                   log    |-> IF stop > Len(items) THEN <<>> ELSE ExcLog(file),
                   opened |-> TRUE]

convert_netcdf_to_sp2(file, ds, fault, old) ==
    IF fault.kind = "open_input"
    THEN [ret |-> FALSE, out |-> old, log |-> ExcLog(file), opened |-> FALSE]
    ELSE LET v == validate_netcdf(ds) IN
         IF ~v.ok
         THEN [ret |-> FALSE, out |-> old, log |-> v.log, opened |-> FALSE]
         ELSE IF fault.kind \in {"makedirs", "open_output"}
         THEN [ret |-> FALSE, out |-> old, log |-> ExcLog(file), opened |-> FALSE]
         ELSE LET items   == sp2_items(ds)
                  stop    == Min(first_exc(items, 1),
                                 IF fault.kind = "write" THEN fault.at
                                 ELSE Len(items) + 1)
                  written == SubSeq(items, 1, stop - 1)
              IN  [ret    |-> stop > Len(items),
                   out    |-> [exists |-> TRUE, lines |-> written],
                   log    |-> IF stop > Len(items) THEN <<>> ELSE ExcLog(file),
                   opened |-> TRUE]

(***************************************************************************)
(* The datasets the input files may hold.                                  *)
(***************************************************************************)
Coords(n, base) == [i \in 1..n |-> base + i]

\* 3-hourly timestamps of one day, with a sub-second part
BaseTime(t) ==
    [Y |-> 2024, M |-> 3, D |-> 15, h |-> 3 * (t - 1), m |-> 0, s |-> 30, ms |-> 750]

Index4(sh) == (1..sh[1]) \X (1..sh[2]) \X (1..sh[3]) \X (1..sh[4])

Index2(sh) == (1..sh[1]) \X (1..sh[2])

\* a distinct whole-numbered sample at every index
PatternEnergy(sh) ==
    [ix \in Index4(sh) |-> Val(4 * (1000 * ix[1] + 100 * ix[2] + 10 * ix[3] + ix[4]))]

PatternFactor(sh) == [ix \in Index2(sh) |-> 10 * ix[1] + ix[2]]

Dataset(vars, nlon, nlat, nfreq, ndir, times, eshape, energy, fshape) ==
    [variables |-> vars,
     longitude |-> Coords(nlon, 100), latitude |-> Coords(nlat, 200),
     frequency |-> Coords(nfreq, 300), direction |-> Coords(ndir, 400),
     time      |-> times,
     eshape    |-> eshape, energy |-> energy,
     fshape    |-> fshape, factor |-> PatternFactor(fshape)]

AllVars == RequiredSet \cup {"factor"}

\* a dataset of shape b = <<T, L, F, D>> in which one axis has length v
\* instead ("none": consistent; "nofactor": consistent, without factor)
Axes == {"none", "nofactor", "nlat", "eT", "eL", "eF", "eD", "fT", "fL"}

ShapeDataset(b, axis, v) ==
    LET dev(a, n) == IF axis = a THEN v ELSE n
    IN  Dataset(IF axis = "nofactor" THEN RequiredSet ELSE AllVars,
                b[2], dev("nlat", b[2]), b[3], b[4],
                [t \in 1..b[1] |-> BaseTime(t)],
                <<dev("eT", b[1]), dev("eL", b[2]), dev("eF", b[3]), dev("eD", b[4])>>,
                PatternEnergy(<<dev("eT", b[1]), dev("eL", b[2]),
                                dev("eF", b[3]), dev("eD", b[4])>>),
                <<dev("fT", b[1]), dev("fL", b[2])>>)

\* the consistent shapes: every axis of length MaxDim, but for at most one
BaseShapes ==
    {b \in (1..MaxDim) \X (1..MaxDim) \X (1..MaxDim) \X (1..MaxDim) :
        Cardinality({i \in 1..4 : b[i] # MaxDim}) <= 1}

ShapeDatasets ==
    {ShapeDataset(b, axis, v) : b \in BaseShapes, axis \in Axes, v \in 0..(MaxDim + 1)}

\* one timestep, location and frequency; the samples of the row vary
Samples == {NaN} \cup {Val(q) : q \in -10..14}

SampleDatasets ==
    {Dataset(AllVars, 1, 1, 1, 2, <<BaseTime(1)>>, <<1, 1, 1, 2>>,
             [ix \in Index4(<<1, 1, 1, 2>>) |-> IF ix[4] = 1 THEN s ELSE Val(-6)],
             <<1, 1>>) : s \in Samples}

\* one timestep whose time value varies
TimeValues ==
    [Y : {1999, 2024}, M : {3, 12}, D : {9, 15}, h : {6, 23}, m : {0, 59},
     s : {30, 59}, ms : {0, 750}]

TimeDatasets ==
    {Dataset(AllVars, 1, 1, 1, 1, <<tv>>, <<1, 1, 1, 1>>,
             PatternEnergy(<<1, 1, 1, 1>>), <<1, 1>>) : tv \in TimeValues}

\* datasets that lack some of the required variables
MissingDatasets ==
    {Dataset(vs \cup {"factor"}, 1, 1, 1, 1, <<BaseTime(1)>>, <<1, 1, 1, 1>>,
             PatternEnergy(<<1, 1, 1, 1>>), <<1, 1>>) :
        vs \in (SUBSET RequiredSet) \ {RequiredSet}}

EncDatasets == ShapeDatasets \cup SampleDatasets \cup TimeDatasets \cup MissingDatasets

\* the datasets of the batch runs: a valid one and two that lack variables
ValidDataset == ShapeDataset(<<1, 1, 1, 1>>, "none", 0)

BatchDatasets ==
    {ValidDataset,
     Dataset(AllVars \ {"direction"}, 1, 1, 1, 1, <<BaseTime(1)>>, <<1, 1, 1, 1>>,
             PatternEnergy(<<1, 1, 1, 1>>), <<1, 1>>),
     Dataset(AllVars \ {"latitude", "time"}, 1, 1, 1, 1, <<BaseTime(1)>>,
             <<1, 1, 1, 1>>, PatternEnergy(<<1, 1, 1, 1>>), <<1, 1>>)}

\* all required variables present and every array shaped as its coordinates
Consistent(ds) ==
    /\ RequiredSet \subseteq ds.variables
    /\ Len(ds.latitude) = Len(ds.longitude)
    /\ ds.eshape = <<Len(ds.time), Len(ds.longitude), Len(ds.frequency),
                     Len(ds.direction)>>
    /\ "factor" \in ds.variables => ds.fshape = <<Len(ds.time), Len(ds.longitude)>>

(***************************************************************************)
(* State.                                                                  *)
(*   pc            : where main() is: "idle" (not started), "loop" (in the *)
(*                   for loop of line 203), "done" (returned)              *)
(*   run           : number of runs of main() started so far               *)
(*   overwrite     : CONFIG['overwrite'] of the current run                *)
(*   netcdf_files  : the matched input files of the current run, in order  *)
(*   idx           : position of the loop in netcdf_files                  *)
(*   success_count : line 202                                              *)
(*   out           : the output directory: the .sp2 file of each input     *)
(*   log           : what the current run has logged                       *)
(*   trace         : per loop iteration of the current run, what happened: *)
(*                   the file, whether the output existed, whether convert *)
(*                   was called, what it returned, whether it opened the   *)
(*                   output, whether the dataset it read lacks a required  *)
(*                   variable, whether the dataset is consistent and no    *)
(*                   fault was injected (clean)                            *)
(*   last          : the latest call of convert_netcdf_to_sp2: its input,  *)
(*                   the injected fault, the output file before, the result*)
(*   broken        : inputs whose latest opened output was left incomplete *)
(***************************************************************************)
VARIABLES pc, run, overwrite, netcdf_files, idx, success_count, out, log,
          trace, last, broken

vars == <<pc, run, overwrite, netcdf_files, idx, success_count, out, log,
          trace, last, broken>>

Files == 1..NFiles

NoCall ==
    [file |-> 0, ds |-> ValidDataset, fault |-> NoFault, ret |-> FALSE,
     before |-> NoFile, opened |-> FALSE]

\* directory entries: a name is prefix + stem + extension
NameKinds ==
    {[prefix |-> "esp_", ext |-> ".nc"], [prefix |-> "tmp_", ext |-> ".nc"],
     [prefix |-> "esp_", ext |-> ".txt"]}

\* line 191
name_matches(name) == name.prefix = "esp_" /\ name.ext = ".nc"

\* os.listdir: the entries of the directory in an arbitrary order
Listings(F) ==
    UNION {{[i \in 1..Cardinality(S) |->
                [prefix |-> kind[order[i]].prefix, stem |-> order[i],
                 ext |-> kind[order[i]].ext]] :
              order \in {o \in [1..Cardinality(S) -> S] :
                           \A i, j \in 1..Cardinality(S) : o[i] = o[j] => i = j},
              kind \in [S -> NameKinds]} : S \in SUBSET F}

\* lines 189-192; a matched file is named by its stem from here on
filter_names(listing) ==
    LET kept == SelectSeq(listing, name_matches)
    IN  [i \in 1..Len(kept) |-> kept[i].stem]

\* line 211
should_skip_whenever_exists(ow, exists) == exists

should_skip_inverted(ow, exists) == ow /\ exists

should_skip(ow, exists) == ~ow /\ exists

\* line 203: the loop goes on to the next file whatever the call returned
next_idx_break_on_failure(i, ret, n) == IF ret THEN i + 1 ELSE n + 1

next_idx(i, ret, n) == i + 1

\* lines 215-216
count_success_always(c, ret) == c + 1

count_success(c, ret) == IF ret THEN c + 1 ELSE c

Init ==
    /\ pc = "idle"
    /\ run = 0
    /\ overwrite = FALSE
    /\ netcdf_files = <<>>
    /\ idx = 1
    /\ success_count = 0
    /\ out \in [Files -> {NoFile, StaleFile}]
    /\ log = <<>>
    /\ trace = <<>>
    /\ last = NoCall
    /\ broken = {}

\* only the output of the first input may already be there
InitEnc ==
    /\ pc = "idle"
    /\ run = 0
    /\ overwrite = FALSE
    /\ netcdf_files = <<>>
    /\ idx = 1
    /\ success_count = 0
    /\ out \in [Files -> {NoFile, StaleFile}]
    /\ \A f \in Files : f # 1 => out[f] = NoFile
    /\ log = <<>>
    /\ trace = <<>>
    /\ last = NoCall
    /\ broken = {}

\* main, lines 183-199: logging set up, the output directory made, the input
\* directory listed and filtered; with no matched file main warns and returns
Start(F, maxruns) ==
    /\ pc \in {"idle", "done"}
    /\ run < maxruns
    /\ \E ow \in BOOLEAN, listing \in Listings(F) :
          LET matched == filter_names(listing)
              setup   == <<LogRec("INFO", "SWAN NetCDF to SP2 Conversion Tool", 0, "", 0),
                           LogRec("INFO", "Started at", 0, "", 0)>>
          IN  /\ overwrite' = ow
              /\ netcdf_files' = matched
              /\ IF Len(matched) = 0
                 THEN /\ log' = setup \o
                         <<LogRec("WARNING", "No valid NetCDF files found", 0, "", 0),
                           LogRec("WARNING", "Expected files", 0, "", 0)>>
                      /\ pc' = "done"
                 ELSE /\ log' = Append(setup,
                                    LogRec("INFO", "Found", 0, "", Len(matched)))
                      /\ pc' = "loop"
    /\ run' = run + 1
    /\ idx' = 1
    /\ success_count' = 0
    /\ trace' = <<>>
    /\ last' = NoCall
    /\ UNCHANGED <<out, broken>>

\* one run over the whole directory
MainStart == Start(Files, 1)

\* one run over a directory that holds the first input only
EncStart == Start({1}, 1)

\* up to MaxRuns runs over a directory that holds the first input only
RerunStart == Start({1}, MaxRuns)

\* main, lines 203-213: the output exists and overwrite is off
MainSkip ==
    /\ pc = "loop"
    /\ idx <= Len(netcdf_files)
    /\ LET f == netcdf_files[idx] IN
          /\ should_skip(overwrite, out[f].exists)
          /\ log' = Append(log, LogRec("INFO", "Skipping existing file", f, "", 0))
          /\ trace' = Append(trace, [file |-> f, called |-> FALSE, ret |-> FALSE,
                                     clean |-> FALSE, lacks |-> FALSE,
                                     opened |-> FALSE, existed |-> out[f].exists])
    /\ idx' = idx + 1
    /\ UNCHANGED <<pc, run, overwrite, netcdf_files, success_count, out, last, broken>>

\* main, lines 203-217, with the call of convert_netcdf_to_sp2 (lines 130-179)
Convert(ds, fault) ==
    /\ pc = "loop"
    /\ idx <= Len(netcdf_files)
    /\ LET f == netcdf_files[idx]
           r == convert_netcdf_to_sp2(f, ds, fault, out[f])
       IN  /\ ~should_skip(overwrite, out[f].exists)
           /\ out' = [out EXCEPT ![f] = r.out]
           /\ success_count' = count_success(success_count, r.ret)
           /\ log' = log \o r.log \o
                     (IF r.ret
                      THEN <<LogRec("INFO", "Successfully converted", f, "", 0)>>
                      ELSE <<>>)
           /\ trace' = Append(trace, [file |-> f, called |-> TRUE, ret |-> r.ret,
                                      clean |-> Consistent(ds) /\ fault = NoFault,
                                      lacks |-> fault.kind # "open_input"
                                                /\ ~(RequiredSet \subseteq ds.variables),
                                      opened |-> r.opened,
                                      existed |-> out[f].exists])
           /\ last' = [file |-> f, ds |-> ds, fault |-> fault, ret |-> r.ret,
                       before |-> out[f], opened |-> r.opened]
           /\ broken' = IF ~r.opened THEN broken
                        ELSE IF r.ret THEN broken \ {f} ELSE broken \cup {f}
           /\ idx' = next_idx(idx, r.ret, Len(netcdf_files))
    /\ UNCHANGED <<pc, run, overwrite, netcdf_files>>

MainConvert == \E ds \in BatchDatasets, fault \in Faults : Convert(ds, fault)

EncConvert == \E ds \in EncDatasets, fault \in Faults : Convert(ds, fault)

\* main, lines 219-224: the final report
MainReport ==
    /\ pc = "loop"
    /\ idx > Len(netcdf_files)
    /\ log' = log \o
              <<LogRec("INFO", "Conversion Summary:", 0, "", 0),
                LogRec("INFO", "- Total files processed", 0, "", Len(netcdf_files)),
                LogRec("INFO", "- Successfully converted", 0, "", success_count),
                LogRec("INFO", "- Output directory", 0, "", 0),
                LogRec("INFO", "Log file saved to", 0, "", 0)>>
    /\ pc' = "done"
    /\ UNCHANGED <<run, overwrite, netcdf_files, idx, success_count, out, trace,
                   last, broken>>

Next == MainStart \/ MainSkip \/ MainConvert \/ MainReport

NextEnc == EncStart \/ MainSkip \/ EncConvert \/ MainReport

NextRerun == RerunStart \/ MainSkip \/ MainConvert \/ MainReport

\* one run of main() over a directory of up to NFiles inputs
Spec == Init /\ [][Next]_vars

\* one run of main() over one input drawn from the full set of datasets
SpecEnc == InitEnc /\ [][NextEnc]_vars

\* successive runs of main() over the same input
SpecRerun == InitEnc /\ [][NextRerun]_vars

(***************************************************************************)
(* Reading an output file back, as a consumer of the format would.         *)
(***************************************************************************)
IsDigit(c) == \E d \in 0..9 : Digits[d + 1] = c

DigitVal(c) == CHOOSE d \in 0..9 : Digits[d + 1] = c

RECURSIVE ParseNat(_)
ParseNat(s) ==
    IF s = <<>> THEN 0
    ELSE 10 * ParseNat(SubSeq(s, 1, Len(s) - 1)) + DigitVal(s[Len(s)])

\* an optional minus sign and digits
ParseInt(tok) == IF tok[1] = "-" THEN -ParseNat(Tail(tok)) ELSE ParseNat(tok)

\* the whitespace-separated integers of a line
ParseRow(txt) ==
    LET toks == SelectSeq(StrSplit(txt, " "), LAMBDA t : t # <<>>)
    IN  [i \in 1..Len(toks) |-> ParseInt(toks[i])]

\* the integer field of a count line
ParseCount(txt) == ParseInt(SelectSeq(txt, LAMBDA c : c # " "))

LinesTagged(lines, tag) == SelectSeq(lines, LAMBDA l : l.tag = tag)

HeaderTags ==
    {"SWAN", "$version", "$project", "TIME", "timecoding", "LONLAT", "nloc",
     "lonlat", "AFREQ", "nfreq", "freq", "NDIR", "ndir", "dir", "QUANT",
     "nquant", "EnDens", "unit", "exception"}

BodyTags == {"time", "FACTOR", "factor", "row"}

\* where the layout of the format puts each body line, counted from the
\* array lengths alone
HeaderLen(ds) ==
    16 + Min(Len(ds.longitude), Len(ds.latitude)) + Len(ds.frequency)
       + Len(ds.direction)

LocBlockLen(ds) == 2 + Len(ds.frequency)

TimeBlockLen(ds) == 1 + Len(ds.longitude) * LocBlockLen(ds)

TimePos(ds, t) == HeaderLen(ds) + (t - 1) * TimeBlockLen(ds) + 1

FactorPos(ds, t, p) == TimePos(ds, t) + (p - 1) * LocBlockLen(ds) + 1

RowPos(ds, t, p, fr) == FactorPos(ds, t, p) + 1 + fr

\* the integer a sample has to be written as: 0 for NaN, else the nearest
\* integer, the even one of the two when the sample lies halfway
ExpectedInt(s) ==
    IF s.nan THEN 0
    ELSE CHOOSE n \in ((s.q \div 4) - 1)..((s.q \div 4) + 1) :
            /\ Abs(4 * n - s.q) <= 2
            /\ Abs(4 * n - s.q) = 2 => n % 2 = 0

\* the latest call of convert_netcdf_to_sp2 returned True
Converted == last.file # 0 /\ last.ret

\* the latest call opened (and so truncated) its output
Opened == last.file # 0 /\ last.opened

LastLines == out[last.file].lines

Validated(ds) == RequiredSet \subseteq ds.variables

Logged(rec) == \E i \in 1..Len(log) : log[i] = rec

HeaderCount(lines, tag) == ParseCount(LinesTagged(lines, tag)[1].txt)

\* the lines of the timestep block that starts at line i (a "time" line)
BlockAt(lines, i) ==
    LET later == {j \in (i + 1)..Len(lines) : lines[j].tag = "time"}
        stop  == IF later = {} THEN Len(lines) + 1
                 ELSE CHOOSE j \in later : \A k \in later : j <= k
    IN  SubSeq(lines, i + 1, stop - 1)

\* a block is a sequence of location blocks: FACTOR, factor, nfreq rows
LocationBlocks(block, nfreq) ==
    /\ Len(block) % (2 + nfreq) = 0
    /\ \A k \in 1..Len(block) :
          block[k].tag = (IF k % (2 + nfreq) = 1 THEN "FACTOR"
                          ELSE IF k % (2 + nfreq) = 2 \/ (nfreq = 0 /\ k % 2 = 0)
                               THEN "factor" ELSE "row")

(***************************************************************************)
(* C4: in every successfully encoded output the location, frequency and    *)
(* direction counts written in the header are the lengths of the           *)
(* longitude, frequency and direction arrays, and every timestep's block   *)
(* holds exactly as many location blocks (a FACTOR line, a factor value    *)
(* and the matrix rows) as the location count written in the header.       *)
(***************************************************************************)
C4_HeaderCountsAndBlocks ==
    Converted =>
        LET ds == last.ds
            lines == LastLines
        IN  /\ Len(LinesTagged(lines, "nloc")) = 1
            /\ Len(LinesTagged(lines, "nfreq")) = 1
            /\ Len(LinesTagged(lines, "ndir")) = 1
            /\ HeaderCount(lines, "nloc") = Len(ds.longitude)
            /\ HeaderCount(lines, "nfreq") = Len(ds.frequency)
            /\ HeaderCount(lines, "ndir") = Len(ds.direction)
            /\ Len(LinesTagged(lines, "freq")) = Len(ds.frequency)
            /\ Len(LinesTagged(lines, "dir")) = Len(ds.direction)
            /\ \A i \in 1..Len(lines) :
                  lines[i].tag = "time" =>
                     /\ LocationBlocks(BlockAt(lines, i), HeaderCount(lines, "nfreq"))
                     /\ Len(LinesTagged(BlockAt(lines, i), "FACTOR"))
                           = HeaderCount(lines, "nloc")

\* a dataset with several locations, whose latitude array is shorter, encoded
C4_Witness ==
    /\ Converted
    /\ Len(last.ds.longitude) = 2
    /\ Len(last.ds.latitude) = 1
    /\ Len(last.ds.time) = 2
    /\ HeaderCount(LastLines, "nloc") = 2
    /\ Len(LinesTagged(LastLines, "FACTOR")) = 4

ExampleTime(ms) ==
    [Y |-> 2024, M |-> 3, D |-> 15, h |-> 6, m |-> 0, s |-> 30, ms |-> ms]

ExampleStamp ==
    <<"2", "0", "2", "4", "0", "3", "1", "5", ".", "0", "6", "0", "0", "3", "0">>

(***************************************************************************)
(* C6: every timestamp line is the 8-digit date YYYYMMDD, a period and the *)
(* 6-digit time HHMMSS of the time value, the sub-second part cut off and  *)
(* never rounded up: 2024-03-15T06:00:30 and 2024-03-15T06:00:30.750 both  *)
(* give 20240315.060030.                                                   *)
(***************************************************************************)
C6_SwanTimeTruncates ==
    Opened =>
        LET ds == last.ds
            lines == LastLines
        IN  \A t \in 1..Len(ds.time) :
               TimePos(ds, t) <= Len(lines) =>
                  LET line == lines[TimePos(ds, t)]
                      txt  == line.txt
                      tv   == ds.time[t]
                  IN  /\ line.tag = "time"
                      /\ Len(txt) = 15
                      /\ txt[9] = "."
                      /\ \A i \in (1..15) \ {9} : IsDigit(txt[i])
                      /\ ParseNat(SubSeq(txt, 1, 4)) = tv.Y
                      /\ ParseNat(SubSeq(txt, 5, 6)) = tv.M
                      /\ ParseNat(SubSeq(txt, 7, 8)) = tv.D
                      /\ ParseNat(SubSeq(txt, 10, 11)) = tv.h
                      /\ ParseNat(SubSeq(txt, 12, 13)) = tv.m
                      /\ ParseNat(SubSeq(txt, 14, 15)) = tv.s
                      /\ tv \in {ExampleTime(0), ExampleTime(750)} => txt = ExampleStamp

\* 2024-03-15T06:00:30.750 was written as 20240315.060030
C6_Witness ==
    /\ Converted
    /\ last.ds.time = <<ExampleTime(750)>>
    /\ LastLines[TimePos(last.ds, 1)].txt = ExampleStamp

(***************************************************************************)
(* C8: a dataset that has every required variable but whose array          *)
(* dimensions are inconsistent (latitude shorter or longer than longitude, *)
(* an axis of energy_density or factor of another length than its          *)
(* coordinate array) never converts successfully: convert_netcdf_to_sp2    *)
(* raises, logs the error and returns False.                               *)
(***************************************************************************)
C8_InconsistentShapesFail ==
    (last.file # 0 /\ Validated(last.ds) /\ ~Consistent(last.ds)) =>
        /\ ~last.ret
        /\ Logged(LogRec("ERROR", "Error processing", last.file, "", 0))

ExpectedFactor(ds, t, p) ==
    IF "factor" \in ds.variables THEN ds.factor[<<t, p>>] ELSE 1

(***************************************************************************)
(* C9: in every successfully written output the header is written once and *)
(* before any body line; the body is, per timestep in index order, one     *)
(* timestamp line and, per location in index order, a FACTOR line, the     *)
(* factor of (t, p) and F matrix rows in frequency order, each row holding *)
(* the D samples of (t, p, frequency) in direction order; the body has     *)
(* exactly T*(1 + L*(2 + F)) lines.  T, L, F, D are the lengths of time,   *)
(* longitude, frequency and direction.                                     *)
(***************************************************************************)
C9_BodyLayout ==
    Converted =>
        LET ds == last.ds
            lines == LastLines
            H == HeaderLen(ds)
        IN  /\ Len(lines) = H + Len(ds.time) * TimeBlockLen(ds)
            /\ Len(LinesTagged(lines, "SWAN")) = 1
            /\ \A i \in 1..Len(lines) :
                  IF i <= H THEN lines[i].tag \in HeaderTags
                  ELSE lines[i].tag \in BodyTags
            /\ \A t \in 1..Len(ds.time) :
                  /\ lines[TimePos(ds, t)].tag = "time"
                  /\ ParseNat(SubSeq(lines[TimePos(ds, t)].txt, 10, 11)) = ds.time[t].h
                  /\ \A p \in 1..Len(ds.longitude) :
                        /\ lines[FactorPos(ds, t, p)].tag = "FACTOR"
                        /\ lines[FactorPos(ds, t, p) + 1].tag = "factor"
                        /\ lines[FactorPos(ds, t, p) + 1].num
                              = <<ExpectedFactor(ds, t, p)>>
                        /\ \A fr \in 1..Len(ds.frequency) :
                              LET line == lines[RowPos(ds, t, p, fr)]
                                  ints == ParseRow(line.txt)
                              IN  /\ line.tag = "row"
                                  /\ Len(ints) = Len(ds.direction)
                                  /\ \A d \in 1..Len(ds.direction) :
                                        ints[d] = ExpectedInt(ds.energy[<<t, p, fr, d>>])

\* the same layout for the datasets whose arrays are shaped consistently
C9_BodyLayoutWhenConsistent == Consistent(last.ds) => C9_BodyLayout

(***************************************************************************)
(* Reading the log and the trace of a run.                                 *)
(***************************************************************************)
ErrorsLogged == Len(SelectSeq(log, LAMBDA e : e.level = "ERROR"))

FailedCalls == Len(SelectSeq(trace, LAMBDA e : e.called /\ ~e.ret))

SucceededCalls == Len(SelectSeq(trace, LAMBDA e : e.called /\ e.ret))

SkipLog(f) == LogRec("INFO", "Skipping existing file", f, "", 0)

SuccessLog(f) == LogRec("INFO", "Successfully converted", f, "", 0)

\* the first variable, in the order of required_vars, that ds lacks
FirstMissing(ds) ==
    required_vars[CHOOSE i \in 1..Len(required_vars) :
                     /\ required_vars[i] \notin ds.variables
                     /\ \A j \in 1..(i - 1) : required_vars[j] \in ds.variables]

InRun == pc \in {"loop", "done"}

(***************************************************************************)
(* C1: in a run of main, the matched files are gone through in list order; *)
(* each one that the overwrite check does not skip is passed to            *)
(* convert_netcdf_to_sp2 exactly once; a failure gives False and one error *)
(* log, and the files after it are still attempted: when main returns,     *)
(* every matched file has been gone through.                               *)
(***************************************************************************)
C1_EveryFileAttemptedInOrder ==
    InRun =>
        /\ Len(trace) <= Len(netcdf_files)
        /\ \A i \in 1..Len(trace) :
              /\ trace[i].file = netcdf_files[i]
              /\ trace[i].called <=> ~(~overwrite /\ trace[i].existed)
        /\ \A i, j \in 1..Len(netcdf_files) :
              netcdf_files[i] = netcdf_files[j] => i = j
        /\ ErrorsLogged = FailedCalls
        /\ pc = "loop" => Len(trace) = idx - 1
        /\ (pc = "done" /\ netcdf_files # <<>>) => Len(trace) = Len(netcdf_files)

\* a run that has returned, in which the first file failed with an exception
\* and the second was converted
C1_Witness ==
    /\ pc = "done"
    /\ Len(trace) = 2
    /\ trace[1].called /\ ~trace[1].ret /\ ~trace[1].lacks
    /\ trace[2].called /\ trace[2].ret
    /\ ErrorsLogged = 1

NotTouched(e) ==
    /\ ~e.called
    /\ ~e.opened
    /\ out[e.file] = StaleFile
    /\ Logged(SkipLog(e.file))
    /\ ~Logged(SuccessLog(e.file))

(***************************************************************************)
(* C2, as claimed: for a matched file whose output exists when main        *)
(* reaches it, with overwrite off the output is not opened or written, a   *)
(* skip is logged and the success count does not change; with overwrite on *)
(* the conversion is run and the file is rewritten from the start.         *)
(***************************************************************************)
C2_AsClaimed ==
    InRun =>
        /\ success_count = SucceededCalls
        /\ \A i \in 1..Len(trace) :
              trace[i].existed =>
                 IF ~overwrite THEN NotTouched(trace[i])
                 ELSE /\ trace[i].called
                      /\ trace[i].opened
                      /\ \A k \in 1..Len(out[trace[i].file].lines) :
                            out[trace[i].file].lines[k].tag # "stale"

ReachesOpen(ds, fault) == fault.kind \in {"none", "write"} /\ Validated(ds)

(***************************************************************************)
(* C2, amended: with overwrite on the conversion is run; the file is       *)
(* truncated and rewritten from the start when the conversion gets as far  *)
(* as opening it (the input opens and has every required variable, the     *)
(* output directory and file can be opened), and is left as it was when    *)
(* the conversion fails before that.  The overwrite-off half is unchanged. *)
(***************************************************************************)
C2_SkipOrRewrite ==
    InRun =>
        /\ success_count = SucceededCalls
        /\ \A i \in 1..Len(trace) :
              trace[i].existed =>
                 IF ~overwrite THEN NotTouched(trace[i])
                 ELSE /\ trace[i].called
                      /\ IF trace[i].opened
                         THEN /\ out[trace[i].file].exists
                              /\ \A k \in 1..Len(out[trace[i].file].lines) :
                                    out[trace[i].file].lines[k].tag # "stale"
                              /\ out[trace[i].file].lines # <<>> =>
                                    out[trace[i].file].lines[1].tag = "SWAN"
                         ELSE out[trace[i].file] = StaleFile
        /\ (last.file # 0 /\ last.before.exists) =>
              (last.opened <=> ReachesOpen(last.ds, last.fault))

\* one run met an existing output with overwrite on and rewrote it, and met
\* another whose input lacks a variable and left it as it was
C2_Witness ==
    /\ pc = "done"
    /\ overwrite
    /\ \E i, j \in 1..Len(trace) :
          /\ trace[i].existed /\ trace[i].called /\ trace[i].ret
          /\ out[trace[i].file].lines[1].tag = "SWAN"
          /\ trace[j].existed /\ trace[j].called /\ trace[j].lacks
          /\ out[trace[j].file] = StaleFile

\* a run with overwrite off skipped an existing output
C2_SkipReached ==
    /\ pc = "done"
    /\ ~overwrite
    /\ \E i \in 1..Len(trace) : trace[i].existed /\ NotTouched(trace[i])

LacksVariable == last.file # 0 /\ last.fault.kind # "open_input" /\ ~Validated(last.ds)

MissingLogged ==
    /\ Logged(LogRec("ERROR", "Missing required variable", 0, FirstMissing(last.ds), 0))
    /\ \A v \in RequiredSet \ {FirstMissing(last.ds)} :
          Logged(LogRec("ERROR", "Missing required variable", 0, v, 0)) =>
             \E i \in 1..(Len(trace) - 1) : trace[i].lacks

OthersConverted ==
    (pc = "done" /\ \E i \in 1..Len(trace) : trace[i].lacks) =>
        /\ Len(trace) = Len(netcdf_files)
        /\ \A j \in 1..Len(trace) :
              (trace[j].called /\ trace[j].clean) =>
                 /\ trace[j].ret
                 /\ Logged(SuccessLog(trace[j].file))
                 /\ out[trace[j].file].exists
                 /\ out[trace[j].file].lines
                       = convert_netcdf_to_sp2(0, ValidDataset, NoFault, NoFile).out.lines

(***************************************************************************)
(* C3, as claimed: for a dataset that lacks a required variable,           *)
(* convert_netcdf_to_sp2 returns False after logging an error naming the   *)
(* first missing variable, before the output is created or written, so no  *)
(* output exists for that input; every other matched file of the batch     *)
(* that is valid is still converted successfully.                          *)
(***************************************************************************)
C3_AsClaimed ==
    /\ LacksVariable =>
          /\ ~last.ret
          /\ MissingLogged
          /\ ~last.opened
          /\ ~out[last.file].exists
    /\ OthersConverted

(***************************************************************************)
(* C3, amended: ... before the output is created or written, so the call   *)
(* leaves the output path as it was: it creates no output, and an output   *)
(* that already existed (which overwrite=true lets the call reach) is      *)
(* still there, unchanged; every other matched file of the batch that is   *)
(* valid, not skipped and hit by no I/O error is converted successfully.   *)
(***************************************************************************)
C3_MissingVariableLeavesOutput ==
    /\ LacksVariable =>
          /\ ~last.ret
          /\ MissingLogged
          /\ ~last.opened
          /\ out[last.file] = last.before
    /\ OthersConverted

\* a run in which a file lacking two variables was rejected, its existing
\* output kept, and a later valid file converted
C3_Witness ==
    /\ pc = "done"
    /\ Len(trace) = 2
    /\ trace[1].lacks /\ trace[1].existed /\ out[trace[1].file] = StaleFile
    /\ Logged(LogRec("ERROR", "Missing required variable", 0, "latitude", 0))
    /\ trace[2].called /\ trace[2].clean /\ trace[2].ret

SummaryLogged ==
    /\ Len(log) >= 5
    /\ log[Len(log) - 4] = LogRec("INFO", "Conversion Summary:", 0, "", 0)
    /\ log[Len(log) - 3]
          = LogRec("INFO", "- Total files processed", 0, "", Len(netcdf_files))
    /\ log[Len(log) - 2]
          = LogRec("INFO", "- Successfully converted", 0, "", SucceededCalls)
    /\ log[Len(log) - 1] = LogRec("INFO", "- Output directory", 0, "", 0)
    /\ log[Len(log)] = LogRec("INFO", "Log file saved to", 0, "", 0)

(***************************************************************************)
(* C7, as claimed: every run of main ends by logging the final summary,    *)
(* which reports the number of files found and the number converted, the   *)
(* latter being the number of calls that returned True in this run.        *)
(***************************************************************************)
C7_AsClaimed == pc = "done" => SummaryLogged

(***************************************************************************)
(* C7, amended: every run of main that finds at least one matched file     *)
(* ends by logging the final summary, with those numbers; a run that finds *)
(* none logs two warnings and returns without a summary.                   *)
(***************************************************************************)
C7_SummaryWhenFilesFound ==
    pc = "done" =>
        IF netcdf_files # <<>> THEN SummaryLogged
        ELSE /\ ~SummaryLogged
             /\ log[Len(log)].level = "WARNING"
             /\ log[Len(log) - 1]
                   = LogRec("WARNING", "No valid NetCDF files found", 0, "", 0)

\* a run ended with its summary after one failure and one success
C7_Witness ==
    /\ pc = "done"
    /\ Len(netcdf_files) = 2
    /\ FailedCalls = 1
    /\ SucceededCalls = 1
    /\ SummaryLogged

Incomplete(o) ==
    o.exists /\ o.lines # convert_netcdf_to_sp2(0, ValidDataset, NoFault, NoFile).out.lines

\* the step is a loop iteration over file f
Iterates(f) ==
    /\ pc = "loop"
    /\ idx <= Len(netcdf_files)
    /\ netcdf_files[idx] = f
    /\ Len(trace') = Len(trace) + 1

(***************************************************************************)
(* C10: once a conversion has failed after opening its output, the partial *)
(* file stays on disk; a later loop iteration over that input with         *)
(* overwrite off skips it and leaves the file as it is, and only an        *)
(* iteration with overwrite on calls the conversion for it again.          *)
(***************************************************************************)
C10_PartialOutputKept ==
    [][\A f \in broken :
          /\ Incomplete(out[f])
          /\ out'[f].exists
          /\ out'[f] # out[f] => (overwrite /\ Iterates(f))
          /\ Iterates(f) =>
                /\ trace'[Len(trace')].file = f
                /\ trace'[Len(trace')].called <=> overwrite
                /\ ~overwrite =>
                      /\ out'[f] = out[f]
                      /\ f \in broken'
                      /\ log' = Append(log, SkipLog(f))
                      /\ success_count' = success_count]_vars

\* a later run with overwrite off has skipped the input whose output an
\* earlier run left truncated
C10_Witness ==
    /\ run >= 2
    /\ pc = "done"
    /\ ~overwrite
    /\ 1 \in broken
    /\ Incomplete(out[1])
    /\ Len(trace) = 1
    /\ ~trace[1].called
    /\ out[1] # StaleFile

=============================================================================
